---- MODULE Spec2Model ----
(***************************************************************************)
(* A model of the GLB transcode-and-repack pipeline of RGB_Linear_3D:      *)
(* src/services/gltfProcessor.ts, processGltf (first, self-repacking       *)
(* variant, lines 61-260) together with processTexture (lines 21-58).      *)
(*                                                                         *)
(* Array indices are 1-based here and 0-based in the source; an absent     *)
(* (undefined) numeric field is the value Undef.  Byte buffers are         *)
(* sequences of byte values.                                               *)
(***************************************************************************)
EXTENDS Integers, Sequences, FiniteSets, TLC

(***************************************************************************)
(* Bounds of the model.                                                    *)
(***************************************************************************)
MaxViews     == 2    \* buffer views in the input manifest
MaxImages    == 2    \* images in the input manifest
MaxTextures  == 2    \* textures in the input manifest
MaxMaterials == 1    \* materials in the input manifest
MaxObjects   == 6    \* views, images, textures and materials together
MaxOff       == 1    \* largest original byteOffset of a view
MaxLen       == 2    \* largest original byteLength of a view
MaxEnc       == 2    \* largest length of an encoder output
MaxCursor    == 7    \* largest cursor value handed to the mismatch check alone
MaxAppEach   == 1    \* views, images, textures, materials of a file dropped on the App
MaxQuality   == 100  \* right end of the quality slider
MaxDim       == 2    \* largest width and height of a texture image
MaxSide      == 4    \* largest width and height of an image that is downscaled
MaxSlotMaterials == 2 \* materials of a manifest whose texture slots vary

Undef == -1          \* `undefined` for an optional numeric field

(***************************************************************************)
(* The binary payload of the input container: parser.getDependency         *)
(* ('buffer', 0).  Byte i of the payload has the value i, so that a copy   *)
(* of a range tells where it came from.                                    *)
(***************************************************************************)
BinSize == MaxOff + MaxLen
oldBin  == [i \in 1..BinSize |-> i]

Min(a, b) == IF a < b THEN a ELSE b
Max(a, b) == IF a > b THEN a ELSE b

\* ArrayBuffer.prototype.slice(begin, end): both ends clamped to the buffer.
Slice(buf, begin, end) ==
    LET b == Min(Max(begin, 0), Len(buf))
        e == Min(Max(end, 0), Len(buf))
    IN  IF e <= b THEN <<>> ELSE SubSeq(buf, b + 1, e)

\* `x || 0` for an optional number
OrZero(x) == IF x = Undef THEN 0 ELSE x

(***************************************************************************)
(* The input manifest (parser.json) as the loader hands it over.           *)
(*   bufferViews[i] = [byteOffset, byteLength]   byteOffset may be absent  *)
(*   images[i]      = [bufferView, mimeType]     bufferView may be absent  *)
(*   textures[i]    = [source]                   an image index            *)
(*   materials[i]   = [baseColorTexture,         texture indices, either   *)
(*                      normalTexture]           may be absent             *)
(* hasBufferViews / hasBuffers tell whether the manifest has the arrays    *)
(* `bufferViews` and `buffers` at all (a container without binary data     *)
(* has neither).  An absent `textures` or `images` array behaves as an     *)
(* empty one (lines 95, 101, 136) and is modelled as the empty sequence.   *)
(***************************************************************************)
MimeTypes == {"image/png", "image/jpeg"}

ViewDefs == [byteOffset : {Undef} \cup 1..MaxOff, byteLength : 1..MaxLen]

ImageDefs(nv) == [bufferView : {Undef} \cup 1..nv, mimeType : MimeTypes]

TextureDefs(ni) == [source : 1..ni]

\* a material with a base-colour texture and no other
MaterialDefs(nt) == [baseColorTexture : 1..nt, normalTexture : {Undef}]

\* a material with or without a base-colour texture and a normal texture
AnyMaterialDefs(nt) ==
    [baseColorTexture : {Undef} \cup 1..nt, normalTexture : {Undef} \cup 1..nt]

\* Images stored in the same buffer view are the same bytes, hence declare
\* the same format.
SameBytesSameFormat(imgs) ==
    \A a, b \in DOMAIN imgs :
        (imgs[a].bufferView # Undef /\ imgs[a].bufferView = imgs[b].bufferView)
            => imgs[a].mimeType = imgs[b].mimeType

VARIABLES
    json,                \* the input manifest, parser.json
    pc,                  \* where processGltf stands
    result,              \* "pending", "blob" (resolved) or "rejected"
    diffuseTextureSet,   \* textures used as a base-colour map
    task,                \* the per-texture async callbacks
    newImageBuffers,     \* image index -> re-encoded (or preserved) bytes
    textureSizeChanges,  \* image index -> size report entry
    logs,                \* the error events handed to the log callback
    newJson,             \* the output manifest
    viewMetas,           \* the views in layout order, with their source bytes
    newBinSize,          \* pass 1: size of the new binary payload
    newBinBytes,         \* pass 2: the new binary payload
    currentOffset,       \* pass 2: write cursor
    glb,                 \* the assembled container
    quality,             \* the quality handed to processGltf
    processingState,     \* App: 'idle', 'processing', 'success' or 'error'
    downloadUrl,         \* App: the object URL of the result, or null
    error,               \* App: the error message, or null
    compressionQuality,  \* App: the quality slider
    isCompressionEnabled, \* App: the compression toggle
    imageSamples,        \* the RGBA samples the canvas returns for an image
    usePngCompression,   \* exporter variant: the flag handed to processGltf
    textureImage,        \* exporter variant: texture.image of each texture
    uniqueTexturesToProcess, \* exporter variant: the textures to convert
    processingPromises,  \* exporter variant: the processTexture calls
    processedTextureMap, \* exporter variant: texture -> converted texture
    blob                 \* exporter variant: what the promise resolved with

\* the locals of processGltf
runVars == <<json, pc, result, diffuseTextureSet, task, newImageBuffers,
             textureSizeChanges, logs, newJson, viewMetas, newBinSize,
             newBinBytes, currentOffset, glb>>

\* the state of the App component and the argument it hands to processGltf
appVars == <<quality, processingState, downloadUrl, error, compressionQuality,
             isCompressionEnabled>>

\* the state of the exporter-based processGltf (lines 415-592)
exportVars == <<usePngCompression, textureImage, uniqueTexturesToProcess,
                processingPromises, processedTextureMap, blob>>

\* what the repacking processGltf (lines 61-260) never writes
outerVars == <<imageSamples, appVars, exportVars>>

vars == <<runVars, appVars, imageSamples, exportVars>>

null == "null"

NoBlob == [kind |-> "none", maps |-> <<>>]

\* the exporter-based processGltf was not called
NoExport ==
    /\ usePngCompression = FALSE
    /\ textureImage = <<>>
    /\ uniqueTexturesToProcess = {}
    /\ processingPromises = <<>>
    /\ processedTextureMap = <<>>
    /\ blob = NoBlob

NumViews    == Len(json.bufferViews)
NumImages   == Len(json.images)
NumTextures == Len(json.textures)

NoJson == [buffers |-> <<>>, bufferViews |-> <<>>, images |-> <<>>,
           textures |-> <<>>, materials |-> <<>>]

NoGlb == [byteLength |-> 0, magic |-> 0, version |-> 0, length |-> 0,
          jsonChunkLength |-> 0, jsonChunkType |-> 0, jsonLength |-> 0,
          jsonPad |-> <<>>, binChunkLength |-> 0, binChunkType |-> 0,
          binData |-> <<>>, binPad |-> <<>>, offset |-> 0]

Init ==
    /\ \E nv \in 0..MaxViews, ni \in 0..MaxImages :
       \E nt \in 0..(IF ni = 0 THEN 0 ELSE MaxTextures) :
       \E nm \in 0..(IF nt = 0 THEN 0 ELSE Min(MaxMaterials, MaxObjects - (nv + ni + nt))) :
       \E hv \in (IF nv = 0 THEN BOOLEAN ELSE {TRUE}),
          bvs \in [1..nv -> ViewDefs],
          imgs \in {x \in [1..ni -> ImageDefs(nv)] : SameBytesSameFormat(x)},
          texs \in [1..nt -> TextureDefs(ni)],
          mats \in [1..nm -> MaterialDefs(nt)] :
            json = [hasBufferViews |-> hv, hasBuffers |-> hv, bufferViews |-> bvs,
                    images |-> imgs, textures |-> texs, materials |-> mats]
    /\ pc = "readFile"
    /\ result = "pending"
    /\ diffuseTextureSet = {}
    /\ task = <<>>
    /\ newImageBuffers = <<>>
    /\ textureSizeChanges = <<>>
    /\ logs = {}
    /\ newJson = NoJson
    /\ viewMetas = <<>>
    /\ newBinSize = 0
    /\ newBinBytes = <<>>
    /\ currentOffset = 0
    /\ glb = NoGlb
    \* the App at the call of line 58, its controls untouched (lines 21-30);
    \* quality reaches the encoder alone (lines 53-56)
    /\ compressionQuality = 90
    /\ isCompressionEnabled = TRUE
    /\ quality = 90
    /\ processingState = "processing"
    /\ downloadUrl = null
    /\ error = null
    /\ imageSamples = <<128, 200, 255, 128>>
    /\ NoExport

(***************************************************************************)
(* processTexture (lines 21-58).  The decoded RGBA samples of an image     *)
(* come from the canvas (drawImage / getImageData); the PNG bytes come     *)
(* from UPNG.encode.  Both are outside the repository: the samples are a   *)
(* fixed picture per image, the encoder's result is chosen by the action.  *)
(***************************************************************************)
\* a table scaled by 256, which wraps to 0 at its last entry
srgbToLinearWrapped == [i \in 1..256 |-> (((i - 1) * 256) \div 255) % 256]

\* lines 42-43: srgbToLinear[i] = Math.floor(Math.pow(i/255, 2.2) * 255),
\* i.e. the k with k^5 * 255^6 <= i^11 < (k+1)^5 * 255^6; entry i+1 here.
srgbToLinear ==
    <<   0,   0,   0,   0,   0,   0,   0,   0,   0,   0,   0,   0,   0,   0,   0,   0,
         0,   0,   0,   0,   0,   1,   1,   1,   1,   1,   1,   1,   1,   2,   2,   2,
         2,   2,   3,   3,   3,   3,   3,   4,   4,   4,   4,   5,   5,   5,   5,   6,
         6,   6,   7,   7,   7,   8,   8,   8,   9,   9,   9,  10,  10,  10,  11,  11,
        12,  12,  13,  13,  13,  14,  14,  15,  15,  16,  16,  17,  17,  18,  18,  19,
        19,  20,  21,  21,  22,  22,  23,  23,  24,  25,  25,  26,  27,  27,  28,  29,
        29,  30,  31,  31,  32,  33,  33,  34,  35,  36,  36,  37,  38,  39,  40,  40,
        41,  42,  43,  44,  45,  45,  46,  47,  48,  49,  50,  51,  52,  53,  54,  55,
        55,  56,  57,  58,  59,  60,  61,  62,  63,  65,  66,  67,  68,  69,  70,  71,
        72,  73,  74,  75,  77,  78,  79,  80,  81,  82,  84,  85,  86,  87,  88,  90,
        91,  92,  93,  95,  96,  97,  99, 100, 101, 103, 104, 105, 107, 108, 109, 111,
       112, 114, 115, 117, 118, 119, 121, 122, 124, 125, 127, 128, 130, 131, 133, 135,
       136, 138, 139, 141, 142, 144, 146, 147, 149, 151, 152, 154, 156, 157, 159, 161,
       162, 164, 166, 168, 169, 171, 173, 175, 176, 178, 180, 182, 184, 186, 187, 189,
       191, 193, 195, 197, 199, 201, 203, 205, 207, 209, 211, 213, 215, 217, 219, 221,
       223, 225, 227, 229, 231, 233, 235, 237, 239, 241, 244, 246, 248, 250, 252, 255 >>

\* line 39: the samples getImageData returns for image i (one RGBA pixel)
DecodedSamples(i) ==
    IF i % 2 = 1 THEN imageSamples ELSE <<64, 0, 17, 255>>

\* a loop that takes every sample, alpha included, through the table
GammaLoopAllSamples(data) ==
    [p \in 1..Len(data) |-> srgbToLinear[data[p] + 1]]

\* lines 45-49: R, G and B of every pixel go through the table
GammaLoop(data) ==
    [p \in 1..Len(data) |->
        IF p % 4 = 0 THEN data[p] ELSE srgbToLinear[data[p] + 1]]

\* a transform that does not look at isDiffuse
TransformAlways(data, isDiffuse) == GammaLoop(data)

\* lines 39-51: the samples handed to the encoder
TransformSamples(data, isDiffuse) ==
    IF isDiffuse THEN GammaLoop(data) ELSE data

\* a palette size that falls as the quality rises
CnumFalling(q) == IF q = 100 THEN 0 ELSE 256 - ((200 + 254 * q + 50) \div 100)

\* line 53: the palette size handed to the encoder; Math.round rounds a
\* half up, and (254 * quality) / 100 is exact where it ends in .5
Cnum(q) == IF q = 100 THEN 0 ELSE (200 + 254 * q + 50) \div 100

\* line 56: n bytes of PNG produced by UPNG.encode
PngByte == 137
EncodedBytes(n) == [k \in 1..n |-> PngByte]

(***************************************************************************)
(* processGltf, lines 61-93: read the file, parse it, collect the diffuse  *)
(* textures of the scene, fetch the binary payload.                        *)
(***************************************************************************)
\* lines 255-259: the catch of processGltf logs the error thrown at `where`
\* and rethrows it
Fatal(where) ==
    /\ pc' = "done"
    /\ result' = "rejected"
    /\ logs' = logs \cup {[type |-> "error", source |-> where, texture |-> 0]}

\* line 64
ReadFile ==
    /\ pc = "readFile"
    /\ pc' = "parse"
    /\ UNCHANGED <<json, result, diffuseTextureSet, task, newImageBuffers,
                   textureSizeChanges, logs, newJson, viewMetas, newBinSize,
                   newBinBytes, currentOffset, glb>>
    /\ UNCHANGED outerVars

\* a collection that takes the textures of every slot
AnySlotTextures ==
    ({json.materials[k].baseColorTexture : k \in DOMAIN json.materials}
        \cup {json.materials[k].normalTexture : k \in DOMAIN json.materials})
        \ {Undef}

\* lines 76-87: every loaded material is a MeshStandardMaterial or a
\* MeshBasicMaterial; material.map is the texture of its baseColorTexture.
DiffuseTextures ==
    {json.materials[k].baseColorTexture : k \in DOMAIN json.materials}
        \ {Undef}

\* lines 67-93: loader.parse succeeds
Parse ==
    /\ pc = "parse"
    /\ pc' = "loadBuffer"
    /\ diffuseTextureSet' = DiffuseTextures
    /\ UNCHANGED <<json, result, task, newImageBuffers, textureSizeChanges,
                   logs, newJson, viewMetas, newBinSize, newBinBytes,
                   currentOffset, glb>>
    /\ UNCHANGED outerVars

\* line 68: loader.parse calls reject (the container is malformed)
ParseFail ==
    /\ pc = "parse"
    /\ Fatal("parse")
    /\ UNCHANGED <<json, diffuseTextureSet, task, newImageBuffers,
                   textureSizeChanges, newJson, viewMetas, newBinSize,
                   newBinBytes, currentOffset, glb>>
    /\ UNCHANGED outerVars

(***************************************************************************)
(* lines 95-127: one async callback per texture.  json.textures.map runs   *)
(* each callback up to its first await (line 98).                          *)
(***************************************************************************)
NoBuffer == [set |-> FALSE, data |-> <<>>]
NoChange == [set |-> FALSE, originalSize |-> 0, newSize |-> 0, modified |-> FALSE]
NewTask  == [pc |-> "getDep", outcome |-> "none", decoded |-> <<>>,
             encoderInput |-> <<>>, cnum |-> Undef, pngBuffer |-> <<>>]

StartTasks ==
    /\ pc = "loadBuffer"
    /\ pc' = "tasks"
    /\ task' = [t \in 1..NumTextures |-> NewTask]
    /\ newImageBuffers' = [i \in 1..NumImages |-> NoBuffer]
    /\ textureSizeChanges' = [i \in 1..NumImages |-> NoChange]
    /\ UNCHANGED <<json, result, diffuseTextureSet, logs, newJson, viewMetas,
                   newBinSize, newBinBytes, currentOffset, glb>>
    /\ UNCHANGED outerVars

ImageOf(t) == json.textures[t].source

\* lines 104-106
OriginalBuffer(t) ==
    LET bv == json.bufferViews[json.images[ImageOf(t)].bufferView]
    IN  Slice(oldBin, OrZero(bv.byteOffset), OrZero(bv.byteOffset) + bv.byteLength)

\* line 108
IsDiffuse(t) == t \in diffuseTextureSet

\* line 98 resolves; lines 99-111 run up to the await of processTexture,
\* which itself runs to its end (it awaits nothing): it returns n bytes of
\* PNG, or throws (no 2D context, no image, the encoder fails).
TaskProcess(t) ==
    /\ t \in DOMAIN task
    /\ task[t].pc = "getDep"
    /\ IF json.images[ImageOf(t)].bufferView = Undef
       THEN task' = [task EXCEPT ![t] = [@ EXCEPT !.pc = "done", !.outcome = "skipped"]]
       ELSE \/ \E n \in 1..MaxEnc :
                 task' = [task EXCEPT ![t] =
                     [pc |-> "awaitProc", outcome |-> "ok",
                      decoded |-> DecodedSamples(ImageOf(t)),
                      encoderInput |-> TransformSamples(DecodedSamples(ImageOf(t)), IsDiffuse(t)),
                      cnum |-> Cnum(quality),
                      pngBuffer |-> EncodedBytes(n)]]
            \/ task' = [task EXCEPT ![t] = [@ EXCEPT !.pc = "awaitProc", !.outcome = "threw"]]
    /\ UNCHANGED <<json, pc, result, diffuseTextureSet, newImageBuffers,
                   textureSizeChanges, logs, newJson, viewMetas, newBinSize,
                   newBinBytes, currentOffset, glb>>
    /\ UNCHANGED outerVars

\* line 98: parser.getDependency('texture', i) rejects (the image cannot be
\* decoded); the await is outside the try of line 110.
TaskDecodeFail(t) ==
    /\ t \in DOMAIN task
    /\ task[t].pc = "getDep"
    /\ task' = [task EXCEPT ![t] = [@ EXCEPT !.pc = "rejected", !.outcome = "decodeFailed"]]
    /\ UNCHANGED <<json, pc, result, diffuseTextureSet, newImageBuffers,
                   textureSizeChanges, logs, newJson, viewMetas, newBinSize,
                   newBinBytes, currentOffset, glb>>
    /\ UNCHANGED outerVars

\* a guard that compares the wrong way round
KeepIfShorter(mimeType, newLength, originalSize) ==
    mimeType = "image/png" /\ newLength < originalSize

\* lines 113-117: the size-regression guard
KeepOriginal(mimeType, newLength, originalSize) ==
    mimeType = "image/png" /\ newLength > originalSize

\* lines 113-117: whether callback t keeps the original bytes
Keeps(t) ==
    KeepOriginal(json.images[ImageOf(t)].mimeType, Len(task[t].pngBuffer),
                 Len(OriginalBuffer(t)))

\* lines 118, 120: newImageBuffers after the continuation of callback t;
\* nothing is staged when processTexture threw
SettledBuffers(buffers, t) ==
    LET newBuffer == IF Keeps(t) THEN OriginalBuffer(t) ELSE task[t].pngBuffer
    IN  IF task[t].outcome = "ok"
        THEN [buffers EXCEPT ![ImageOf(t)] = [set |-> TRUE, data |-> newBuffer]]
        ELSE buffers

\* lines 119, 123: textureSizeChanges after the continuation of callback t
SettledChanges(changes, t) ==
    LET originalSize == Len(OriginalBuffer(t))
        newBuffer    == IF Keeps(t) THEN OriginalBuffer(t) ELSE task[t].pngBuffer
    IN  IF task[t].outcome = "ok"
        THEN [changes EXCEPT ![ImageOf(t)] =
                 [set |-> TRUE, originalSize |-> originalSize,
                  newSize |-> Len(newBuffer), modified |-> ~Keeps(t)]]
        ELSE [changes EXCEPT ![ImageOf(t)] =
                 [set |-> TRUE, originalSize |-> originalSize,
                  newSize |-> originalSize, modified |-> FALSE]]

\* lines 111-124: the continuation after the await of processTexture
TaskSettle(t) ==
    /\ t \in DOMAIN task
    /\ task[t].pc = "awaitProc"
    /\ newImageBuffers' = SettledBuffers(newImageBuffers, t)
    /\ textureSizeChanges' = SettledChanges(textureSizeChanges, t)
    /\ logs' = IF task[t].outcome = "ok" THEN logs
               ELSE logs \cup {[type |-> "error", source |-> "texture", texture |-> t]}
    /\ task' = [task EXCEPT ![t] = [pc |-> "done", outcome |-> @.outcome,
                    decoded |-> <<>>, encoderInput |-> <<>>, cnum |-> Undef,
                    pngBuffer |-> <<>>]]
    /\ UNCHANGED <<json, pc, result, diffuseTextureSet, newJson, viewMetas,
                   newBinSize, newBinBytes, currentOffset, glb>>
    /\ UNCHANGED outerVars

\* a barrier that waits for one callback only (Promise.race)
AnySettled == \A t \in DOMAIN task : \E o \in DOMAIN task : task[o].pc = "done"

\* line 127: Promise.all resolves once every callback has returned
AllSettled == \A t \in DOMAIN task : task[t].pc = "done"

\* line 127: Promise.all rejects as soon as one callback has rejected
PromiseAllReject ==
    /\ pc = "tasks"
    /\ \E t \in DOMAIN task : task[t].pc = "rejected"
    /\ Fatal("texture")
    /\ UNCHANGED <<json, diffuseTextureSet, task, newImageBuffers,
                   textureSizeChanges, newJson, viewMetas, newBinSize,
                   newBinBytes, currentOffset, glb>>
    /\ UNCHANGED outerVars

(***************************************************************************)
(* lines 130-181: the output manifest and pass 1 of the layout.            *)
(***************************************************************************)
\* a copy that takes only the arrays the repacking writes to
CopyRepackedOnly(j) ==
    [buffers     |-> IF j.hasBuffers THEN <<[byteLength |-> BinSize]>> ELSE <<>>,
     bufferViews |-> j.bufferViews,
     images      |-> j.images,
     textures    |-> <<>>,
     materials   |-> <<>>]

\* line 132: JSON.parse(JSON.stringify(json)) rebuilds every array and
\* object of the manifest with the same members.
DeepCopy(j) ==
    [buffers     |-> IF j.hasBuffers THEN <<[byteLength |-> BinSize]>> ELSE <<>>,
     bufferViews |-> [v \in DOMAIN j.bufferViews |->
                        [byteOffset |-> j.bufferViews[v].byteOffset,
                         byteLength |-> j.bufferViews[v].byteLength]],
     images      |-> [i \in DOMAIN j.images |->
                        [bufferView |-> j.images[i].bufferView,
                         mimeType   |-> j.images[i].mimeType]],
     textures    |-> [t \in DOMAIN j.textures |-> [source |-> j.textures[t].source]],
     materials   |-> [k \in DOMAIN j.materials |->
                        [baseColorTexture |-> j.materials[k].baseColorTexture,
                         normalTexture    |-> j.materials[k].normalTexture]]]

\* lines 135-142: the last image stored in view v, or Undef
ViewIndexToImageIndex(v) ==
    LET imgs == {i \in DOMAIN json.images : json.images[i].bufferView = v}
    IN  IF imgs = {} THEN Undef ELSE CHOOSE i \in imgs : \A o \in imgs : o <= i

\* lines 144-150
ViewMeta(v) ==
    [index      |-> v,
     byteOffset |-> OrZero(json.bufferViews[v].byteOffset),
     isImage    |-> ViewIndexToImageIndex(v) # Undef,
     imageIndex |-> ViewIndexToImageIndex(v),
     sourceData |-> <<>>]

\* a comparator that puts a view before the views of the same offset
BeforeStrict(a, b) == a.byteOffset - b.byteOffset < 0

\* line 152: the comparator of the sort
Before(a, b) == a.byteOffset - b.byteOffset <= 0

RECURSIVE InsertSorted(_, _)
InsertSorted(sorted, m) ==
    IF sorted = <<>> THEN <<m>>
    ELSE IF Before(sorted[Len(sorted)], m) THEN Append(sorted, m)
    ELSE Append(InsertSorted(SubSeq(sorted, 1, Len(sorted) - 1), m), sorted[Len(sorted)])

\* a layout that takes the views in manifest order
NoSort(metas) == metas

\* line 152: Array.prototype.sort is stable
RECURSIVE SortMetas(_)
SortMetas(metas) ==
    IF metas = <<>> THEN <<>>
    ELSE InsertSorted(SortMetas(SubSeq(metas, 1, Len(metas) - 1)), metas[Len(metas)])

\* a layout that never pads
PaddingNone(n) == 0

\* a padding that misses the outer modulo: 4 bytes where none are needed
PaddingNoWrap(n) == 4 - (n % 4)

\* lines 169, 188, 212, 215
Padding(n) == (4 - (n % 4)) % 4

\* a source that reads a passed-through view from the start of the payload
SourceDataNoOffset(meta) ==
    LET oldBv == json.bufferViews[meta.index]
    IN  IF meta.isImage /\ newImageBuffers[meta.imageIndex].set
        THEN newImageBuffers[meta.imageIndex].data
        ELSE Slice(oldBin, 0, oldBv.byteLength)

\* lines 158-166: the bytes view `meta` gets
SourceData(meta) ==
    LET oldBv  == json.bufferViews[meta.index]
        offset == OrZero(oldBv.byteOffset)
    IN  IF meta.isImage /\ newImageBuffers[meta.imageIndex].set
        THEN newImageBuffers[meta.imageIndex].data
        ELSE Slice(oldBin, offset, offset + oldBv.byteLength)

\* a pass 1 that records the length the view had in the input
LayoutStepOldLength(acc, meta) ==
    LET data   == SourceData(meta)
        start  == acc.newBinSize + Padding(acc.newBinSize)
        isNew  == meta.isImage /\ newImageBuffers[meta.imageIndex].set
    IN  [newBinSize  |-> start + Len(data),
         bufferViews |-> [acc.bufferViews EXCEPT ![meta.index] =
                            [byteOffset |-> start,
                             byteLength |-> json.bufferViews[meta.index].byteLength]],
         images      |-> IF isNew
                         THEN [acc.images EXCEPT ![meta.imageIndex].mimeType = "image/png"]
                         ELSE acc.images,
         metas       |-> Append(acc.metas, [meta EXCEPT !.sourceData = data])]

\* lines 157-178: one turn of the loop of pass 1
LayoutStep(acc, meta) ==
    LET data   == SourceData(meta)
        start  == acc.newBinSize + Padding(acc.newBinSize)
        isNew  == meta.isImage /\ newImageBuffers[meta.imageIndex].set
    IN  [newBinSize  |-> start + Len(data),
         bufferViews |-> [acc.bufferViews EXCEPT ![meta.index] =
                            [byteOffset |-> start, byteLength |-> Len(data)]],
         images      |-> IF isNew
                         THEN [acc.images EXCEPT ![meta.imageIndex].mimeType = "image/png"]
                         ELSE acc.images,
         metas       |-> Append(acc.metas, [meta EXCEPT !.sourceData = data])]

RECURSIVE Pass1(_, _)
Pass1(acc, metas) ==
    IF metas = <<>> THEN acc
    ELSE Pass1(LayoutStep(acc, Head(metas)), Tail(metas))

\* lines 130-181.  oldBufferViews.map (line 144) throws when the manifest
\* has no bufferViews, newJson.buffers[0] (line 180) when it has no buffers.
Layout ==
    /\ pc = "tasks"
    /\ AllSettled
    /\ IF ~json.hasBufferViews \/ ~json.hasBuffers
       THEN /\ Fatal("layout")
            /\ UNCHANGED <<newJson, viewMetas, newBinSize>>
       ELSE LET copy == DeepCopy(json)
                done == Pass1([newBinSize |-> 0, bufferViews |-> copy.bufferViews,
                               images |-> copy.images, metas |-> <<>>],
                              SortMetas([v \in 1..NumViews |-> ViewMeta(v)]))
            IN  /\ newJson' = [copy EXCEPT !.bufferViews = done.bufferViews,
                                           !.images = done.images,
                                           !.buffers = <<[byteLength |-> done.newBinSize]>>]
                /\ viewMetas' = done.metas
                /\ newBinSize' = done.newBinSize
                /\ pc' = "pass2"
                /\ UNCHANGED <<result, logs>>
    /\ UNCHANGED <<json, diffuseTextureSet, task, newImageBuffers,
                   textureSizeChanges, newBinBytes, currentOffset, glb>>
    /\ UNCHANGED outerVars

(***************************************************************************)
(* lines 183-203: pass 2 copies the bytes.                                 *)
(***************************************************************************)
\* line 195: TypedArray.prototype.set(source, offset); ok is FALSE where
\* the source does not fit (a RangeError)
SetBytes(target, source, offset) ==
    [ok    |-> offset + Len(source) <= Len(target),
     bytes |-> [p \in 1..Len(target) |->
                  IF p > offset /\ p <= offset + Len(source)
                  THEN source[p - offset] ELSE target[p]]]

\* a pass 2 that writes the views back to back
WriteStepNoPad(acc, meta) ==
    LET at  == acc.currentOffset
        put == SetBytes(acc.bytes, meta.sourceData, at)
    IN  [currentOffset |-> at + Len(meta.sourceData),
         bytes         |-> put.bytes,
         ok            |-> acc.ok /\ put.ok]

\* lines 187-197: one turn of the loop of pass 2
WriteStep(acc, meta) ==
    LET at  == acc.currentOffset + Padding(acc.currentOffset)
        put == SetBytes(acc.bytes, meta.sourceData, at)
    IN  [currentOffset |-> at + Len(meta.sourceData),
         bytes         |-> put.bytes,
         ok            |-> acc.ok /\ put.ok]

RECURSIVE Pass2(_, _)
Pass2(acc, metas) ==
    IF metas = <<>> \/ ~acc.ok THEN acc
    ELSE Pass2(WriteStep(acc, Head(metas)), Tail(metas))

\* lines 184-197 (meta.sourceData is an ArrayBuffer after pass 1, so the
\* throw of line 192 is never taken)
CopyViews ==
    /\ pc = "pass2"
    /\ LET done == Pass2([currentOffset |-> 0,
                          bytes |-> [p \in 1..newBinSize |-> 0],
                          ok |-> TRUE], viewMetas)
       IN  IF done.ok
           THEN /\ newBinBytes' = done.bytes
                /\ currentOffset' = done.currentOffset
                /\ pc' = "check"
                /\ UNCHANGED <<result, logs>>
           ELSE /\ Fatal("copy")
                /\ UNCHANGED <<newBinBytes, currentOffset>>
    /\ UNCHANGED <<json, diffuseTextureSet, task, newImageBuffers,
                   textureSizeChanges, newJson, viewMetas, newBinSize, glb>>
    /\ UNCHANGED outerVars

\* lines 199-203: a mismatch is logged, and the run goes on
MismatchLogs(cur, size) ==
    IF cur # size
    THEN {[type |-> "error", source |-> "mismatch", texture |-> 0]}
    ELSE {}

CheckMismatch ==
    /\ pc = "check"
    /\ logs' = logs \cup MismatchLogs(currentOffset, newBinSize)
    /\ pc' = "assemble"
    /\ UNCHANGED <<json, result, diffuseTextureSet, task, newImageBuffers,
                   textureSizeChanges, newJson, viewMetas, newBinSize,
                   newBinBytes, currentOffset, glb>>
    /\ UNCHANGED outerVars

(***************************************************************************)
(* lines 205-254: the container.                                           *)
(***************************************************************************)
GLB_HEADER_MAGIC    == 1179937895
GLB_VERSION         == 2
GLB_CHUNK_TYPE_JSON == 1313821514
GLB_CHUNK_TYPE_BIN  == 5130562

\* the number of characters of the decimal text of n
RECURSIVE Digits(_)
Digits(n) == IF n < 10 THEN 1 ELSE 1 + Digits(n \div 10)

RECURSIVE Sum(_)
Sum(lengths) == IF lengths = <<>> THEN 0 ELSE Head(lengths) + Sum(Tail(lengths))

\* The operators below give the number of characters JSON.stringify writes
\* for each part of the manifest; Len of a text stands for the text.
ViewLength(bv) ==
    Len("{\"buffer\":0")
    + (IF bv.byteOffset = Undef THEN 0
       ELSE Len(",\"byteOffset\":") + Digits(bv.byteOffset))
    + Len(",\"byteLength\":") + Digits(bv.byteLength) + Len("}")

ImageLength(img) ==
    Len("{")
    + (IF img.bufferView = Undef THEN Len("\"uri\":\"a.png\",")
       ELSE Len("\"bufferView\":") + Digits(img.bufferView - 1) + Len(","))
    + Len("\"mimeType\":\"") + Len(img.mimeType) + Len("\"}")

TextureLength(tex) == Len("{\"source\":") + Digits(tex.source - 1) + Len("}")

MaterialLength(mat) ==
    Len("{\"pbrMetallicRoughness\":{")
    + (IF mat.baseColorTexture = Undef THEN 0
       ELSE Len("\"baseColorTexture\":{\"index\":")
            + Digits(mat.baseColorTexture - 1) + Len("}"))
    + Len("}")
    + (IF mat.normalTexture = Undef THEN 0
       ELSE Len(",\"normalTexture\":{\"index\":")
            + Digits(mat.normalTexture - 1) + Len("}"))
    + Len("}")

BufferLength(buf) == Len("{\"byteLength\":") + Digits(buf.byteLength) + Len("}")

\* ,"key":[a,b,...]
ArrayLength(key, lengths) ==
    Len(",\"") + Len(key) + Len("\":[") + Sum(lengths)
    + (IF Len(lengths) > 1 THEN Len(lengths) - 1 ELSE 0) + Len("]")

\* lines 210-211: the length of TextEncoder.encode(JSON.stringify(newJson));
\* the text is ASCII, and an array the manifest does not have is not written
StringifyLength(j, hasViews) ==
    Len("{\"asset\":{\"version\":\"2.0\"}")
    + (IF j.buffers = <<>> THEN 0
       ELSE ArrayLength("buffers", [b \in DOMAIN j.buffers |-> BufferLength(j.buffers[b])]))
    + (IF ~hasViews THEN 0
       ELSE ArrayLength("bufferViews",
                [v \in DOMAIN j.bufferViews |-> ViewLength(j.bufferViews[v])]))
    + (IF j.images = <<>> THEN 0
       ELSE ArrayLength("images", [i \in DOMAIN j.images |-> ImageLength(j.images[i])]))
    + (IF j.textures = <<>> THEN 0
       ELSE ArrayLength("textures",
                [t \in DOMAIN j.textures |-> TextureLength(j.textures[t])]))
    + (IF j.materials = <<>> THEN 0
       ELSE ArrayLength("materials",
                [k \in DOMAIN j.materials |-> MaterialLength(j.materials[k])]))
    + Len("}")

\* a padding loop that writes zero bytes whatever the chunk
FillZero(count, byte) == [k \in 1..count |-> 0]

\* lines 232, 238: count bytes of padding
Fill(count, byte) == [k \in 1..count |-> byte]

\* lines 210-254
Assemble ==
    /\ pc = "assemble"
    /\ LET jsonLength      == StringifyLength(newJson, json.hasBufferViews)
           jsonPadding     == Padding(jsonLength)
           jsonChunkLength == jsonLength + jsonPadding
           binPadding      == Padding(Len(newBinBytes))
           binChunkLength  == Len(newBinBytes) + binPadding
           totalLength     == 12 + (8 + jsonChunkLength) + (8 + binChunkLength)
           afterHeader     == 4 + 4 + 4
           afterJson       == afterHeader + 4 + 4 + jsonLength + jsonPadding
           afterBin        == afterJson + 4 + 4 + Len(newBinBytes) + binPadding
       IN  glb' = [byteLength      |-> totalLength,
                   magic           |-> GLB_HEADER_MAGIC,
                   version         |-> GLB_VERSION,
                   length          |-> totalLength,
                   jsonChunkLength |-> jsonChunkLength,
                   jsonChunkType   |-> GLB_CHUNK_TYPE_JSON,
                   jsonLength      |-> jsonLength,
                   jsonPad         |-> Fill(jsonPadding, 32),
                   binChunkLength  |-> binChunkLength,
                   binChunkType    |-> GLB_CHUNK_TYPE_BIN,
                   binData         |-> newBinBytes,
                   binPad          |-> Fill(binPadding, 0),
                   offset          |-> afterBin]
    /\ pc' = "done"
    /\ result' = "blob"
    /\ UNCHANGED <<json, diffuseTextureSet, task, newImageBuffers,
                   textureSizeChanges, logs, newJson, viewMetas, newBinSize,
                   newBinBytes, currentOffset>>
    /\ UNCHANGED outerVars

Next ==
    \/ ReadFile
    \/ Parse
    \/ ParseFail
    \/ StartTasks
    \/ \E t \in 1..MaxTextures : TaskProcess(t)
    \/ \E t \in 1..MaxTextures : TaskDecodeFail(t)
    \/ \E t \in 1..MaxTextures : TaskSettle(t)
    \/ PromiseAllReject
    \/ Layout
    \/ CopyViews
    \/ CheckMismatch
    \/ Assemble

Spec == Init /\ [][Next]_vars

(***************************************************************************)
(* The mismatch check of lines 199-203 on its own: pass 2 recomputes the   *)
(* cursor of pass 1, so the two never differ in a run of Spec; here the    *)
(* check and what follows it are applied to every cursor within a payload  *)
(* of every size.                                                          *)
(***************************************************************************)
InitMismatch ==
    /\ json = [hasBufferViews |-> TRUE, hasBuffers |-> TRUE, bufferViews |-> <<>>,
               images |-> <<>>, textures |-> <<>>, materials |-> <<>>]
    /\ pc = "check"
    /\ result = "pending"
    /\ diffuseTextureSet = {}
    /\ task = <<>>
    /\ newImageBuffers = <<>>
    /\ textureSizeChanges = <<>>
    /\ logs = {}
    /\ viewMetas = <<>>
    /\ newBinSize \in 0..MaxCursor
    /\ currentOffset \in 0..newBinSize    \* line 195 throws beyond the buffer
    /\ newJson = [DeepCopy(json) EXCEPT !.buffers = <<[byteLength |-> newBinSize]>>]
    /\ newBinBytes = [p \in 1..newBinSize |-> 0]
    /\ glb = NoGlb
    /\ compressionQuality = 90
    /\ isCompressionEnabled = TRUE
    /\ quality = 90
    /\ processingState = "processing"
    /\ downloadUrl = null
    /\ error = null
    /\ imageSamples = <<128, 200, 255, 128>>
    /\ NoExport

NextMismatch == CheckMismatch \/ Assemble

SpecMismatch == InitMismatch /\ [][NextMismatch]_vars

(***************************************************************************)
(* src/App.tsx: the component that calls processGltf.  The Dropzone and    *)
(* the controls are rendered in state 'idle' only (lines 90-138), the      *)
(* reset buttons in 'success' and 'error' only (lines 162, 175).  json is  *)
(* the manifest of the file the user drops.                                *)
(***************************************************************************)
\* the locals of a run that has not started
NoRun ==
    /\ result = "pending"
    /\ diffuseTextureSet = {}
    /\ task = <<>>
    /\ newImageBuffers = <<>>
    /\ textureSizeChanges = <<>>
    /\ newJson = NoJson
    /\ viewMetas = <<>>
    /\ newBinSize = 0
    /\ newBinBytes = <<>>
    /\ currentOffset = 0
    /\ glb = NoGlb

\* the locals of the run that ended are dropped
DropRun ==
    /\ result' = "pending"
    /\ diffuseTextureSet' = {}
    /\ task' = <<>>
    /\ newImageBuffers' = <<>>
    /\ textureSizeChanges' = <<>>
    /\ newJson' = NoJson
    /\ viewMetas' = <<>>
    /\ newBinSize' = 0
    /\ newBinBytes' = <<>>
    /\ currentOffset' = 0
    /\ glb' = NoGlb

\* lines 21-30: the state of the App when it is mounted
AppMounted ==
    /\ pc = "idle"
    /\ logs = {}
    /\ processingState = "idle"
    /\ downloadUrl = null
    /\ error = null
    /\ compressionQuality = 90
    /\ isCompressionEnabled = TRUE
    /\ quality = Undef

InitApp ==
    /\ \E nv \in 0..MaxAppEach, ni \in 0..MaxAppEach :
       \E nt \in 0..(IF ni = 0 THEN 0 ELSE MaxAppEach) :
       \E nm \in 0..(IF nt = 0 THEN 0 ELSE MaxAppEach) :
       \E hv \in (IF nv = 0 THEN BOOLEAN ELSE {TRUE}),
          bvs \in [1..nv -> ViewDefs],
          imgs \in [1..ni -> ImageDefs(nv)],
          texs \in [1..nt -> TextureDefs(ni)],
          mats \in [1..nm -> MaterialDefs(nt)] :
            json = [hasBufferViews |-> hv, hasBuffers |-> hv, bufferViews |-> bvs,
                    images |-> imgs, textures |-> texs, materials |-> mats]
    /\ NoRun
    /\ AppMounted
    /\ imageSamples = <<128, 200, 255, 128>>
    /\ NoExport

\* a Dropzone that is rendered in every state
DropzoneAlwaysMounted == TRUE

\* lines 89-92 (src/unnamed/part_001, lines 82-85): renderMainContent
\* renders the Dropzone in state 'idle' only
DropzoneMounted == processingState = "idle"

\* src/components/Dropzone.tsx, lines 30 and 68: a drop is handed on unless
\* the Dropzone is disabled, and so is a file chosen in the input
Accepts(disabled) == ~disabled

\* lines 43-58: a .glb file is dropped; processGltf runs up to its first
\* await (line 64)
HandleFileDrop ==
    /\ DropzoneMounted
    /\ Accepts(processingState # "idle")
    /\ processingState' = "processing"
    /\ logs' = {}
    /\ quality' = IF isCompressionEnabled THEN compressionQuality ELSE 100
    /\ pc' = "readFile"
    /\ UNCHANGED <<json, result, diffuseTextureSet, task, newImageBuffers,
                   textureSizeChanges, newJson, viewMetas, newBinSize,
                   newBinBytes, currentOffset, glb>>
    /\ UNCHANGED <<downloadUrl, error, compressionQuality, isCompressionEnabled>>
    /\ UNCHANGED <<imageSamples, exportVars>>

\* lines 44-47: the file dropped is not a .glb file
HandleFileDropInvalid ==
    /\ DropzoneMounted
    /\ Accepts(processingState # "idle")
    /\ logs' = logs \cup {[type |-> "error", source |-> "fileType", texture |-> 0]}
    /\ UNCHANGED <<json, pc, result, diffuseTextureSet, task, newImageBuffers,
                   textureSizeChanges, newJson, viewMetas, newBinSize,
                   newBinBytes, currentOffset, glb>>
    /\ UNCHANGED appVars
    /\ UNCHANGED <<imageSamples, exportVars>>

\* a continuation that announces success without a URL
RunResolvedNoUrl ==
    /\ processingState = "processing"
    /\ pc = "done"
    /\ result = "blob"
    /\ pc' = "returned"
    /\ processingState' = "success"
    /\ UNCHANGED <<json, result, diffuseTextureSet, task, newImageBuffers,
                   textureSizeChanges, logs, newJson, viewMetas, newBinSize,
                   newBinBytes, currentOffset, glb>>
    /\ UNCHANGED <<quality, downloadUrl, error, compressionQuality, isCompressionEnabled>>
    /\ UNCHANGED <<imageSamples, exportVars>>

\* lines 58-62: the promise of processGltf resolved with a Blob
RunResolved ==
    /\ processingState = "processing"
    /\ pc = "done"
    /\ result = "blob"
    /\ pc' = "returned"
    /\ downloadUrl' = "blob:"
    /\ processingState' = "success"
    /\ UNCHANGED <<json, result, diffuseTextureSet, task, newImageBuffers,
                   textureSizeChanges, logs, newJson, viewMetas, newBinSize,
                   newBinBytes, currentOffset, glb>>
    /\ UNCHANGED <<quality, error, compressionQuality, isCompressionEnabled>>
    /\ UNCHANGED <<imageSamples, exportVars>>

\* lines 63-67: the promise of processGltf rejected
RunRejected ==
    /\ processingState = "processing"
    /\ pc = "done"
    /\ result = "rejected"
    /\ pc' = "returned"
    /\ logs' = logs \cup {[type |-> "error", source |-> "app", texture |-> 0]}
    /\ error' = "message"
    /\ processingState' = "error"
    /\ UNCHANGED <<json, result, diffuseTextureSet, task, newImageBuffers,
                   textureSizeChanges, newJson, viewMetas, newBinSize,
                   newBinBytes, currentOffset, glb>>
    /\ UNCHANGED <<quality, downloadUrl, compressionQuality, isCompressionEnabled>>
    /\ UNCHANGED <<imageSamples, exportVars>>

\* a reset that leaves the object URL in place
HandleResetKeepUrl ==
    /\ processingState \in {"success", "error"}
    /\ processingState' = "idle"
    /\ logs' = {}
    /\ error' = null
    /\ pc' = "idle"
    /\ DropRun
    /\ quality' = Undef
    /\ UNCHANGED <<json, downloadUrl, compressionQuality, isCompressionEnabled>>
    /\ UNCHANGED <<imageSamples, exportVars>>

\* lines 71-81.  The run that ended is dropped with its locals; callbacks
\* it left behind (after a rejection) could only append to the log.
HandleReset ==
    /\ processingState \in {"success", "error"}
    /\ processingState' = "idle"
    /\ logs' = {}
    /\ downloadUrl' = null
    /\ error' = null
    /\ pc' = "idle"
    /\ DropRun
    /\ quality' = Undef
    /\ UNCHANGED <<json, compressionQuality, isCompressionEnabled>>
    /\ UNCHANGED <<imageSamples, exportVars>>

\* line 126: the quality slider
SetCompressionQuality(q) ==
    /\ processingState = "idle"
    /\ compressionQuality' = q
    /\ UNCHANGED runVars
    /\ UNCHANGED <<quality, processingState, downloadUrl, error, isCompressionEnabled>>
    /\ UNCHANGED <<imageSamples, exportVars>>

\* line 105: the compression toggle
SetIsCompressionEnabled(b) ==
    /\ processingState = "idle"
    /\ isCompressionEnabled' = b
    /\ UNCHANGED runVars
    /\ UNCHANGED <<quality, processingState, downloadUrl, error, compressionQuality>>
    /\ UNCHANGED <<imageSamples, exportVars>>

(***************************************************************************)
(* src/unnamed/part_001: the App that hands an optimization level to       *)
(* processGltf.  That processGltf is not among the sources; its promise    *)
(* is pending from the call of line 38 until it resolves or rejects.       *)
(***************************************************************************)
\* part_001, lines 24-38: a .glb file is dropped
HandleFileDropLevel ==
    /\ DropzoneMounted
    /\ Accepts(FALSE)
    /\ processingState' = "processing"
    /\ logs' = {}
    /\ downloadUrl' = null
    /\ error' = null
    /\ pc' = "levelRun"
    /\ UNCHANGED <<json, result, diffuseTextureSet, task, newImageBuffers,
                   textureSizeChanges, newJson, viewMetas, newBinSize,
                   newBinBytes, currentOffset, glb>>
    /\ UNCHANGED <<quality, compressionQuality, isCompressionEnabled>>
    /\ UNCHANGED <<imageSamples, exportVars>>

\* part_001, lines 38-43: the promise resolved with a Blob
LevelRunResolved ==
    /\ processingState = "processing"
    /\ pc = "levelRun"
    /\ pc' = "returned"
    /\ downloadUrl' = "blob:"
    /\ processingState' = "success"
    /\ UNCHANGED <<json, result, diffuseTextureSet, task, newImageBuffers,
                   textureSizeChanges, logs, newJson, viewMetas, newBinSize,
                   newBinBytes, currentOffset, glb>>
    /\ UNCHANGED <<quality, error, compressionQuality, isCompressionEnabled>>
    /\ UNCHANGED <<imageSamples, exportVars>>

\* part_001, lines 44-50: the promise rejected
LevelRunRejected ==
    /\ processingState = "processing"
    /\ pc = "levelRun"
    /\ pc' = "returned"
    /\ logs' = logs \cup {[type |-> "error", source |-> "app", texture |-> 0]}
    /\ error' = "message"
    /\ processingState' = "error"
    /\ UNCHANGED <<json, result, diffuseTextureSet, task, newImageBuffers,
                   textureSizeChanges, newJson, viewMetas, newBinSize,
                   newBinBytes, currentOffset, glb>>
    /\ UNCHANGED <<quality, downloadUrl, compressionQuality, isCompressionEnabled>>
    /\ UNCHANGED <<imageSamples, exportVars>>

NextApp ==
    \/ HandleFileDrop
    \/ HandleFileDropInvalid
    \/ Next
    \/ RunResolved
    \/ RunRejected
    \/ HandleReset

SpecApp == InitApp /\ [][NextApp]_vars

\* the App of src/App.tsx and the App of part_001
NextUI ==
    \/ NextApp
    \/ HandleFileDropLevel
    \/ LevelRunResolved
    \/ LevelRunRejected

SpecUI == InitApp /\ [][NextUI]_vars

(***************************************************************************)
(* The App with its quality controls, dropping one file: a container with  *)
(* one PNG texture that no material uses.                                  *)
(***************************************************************************)
InitQuality ==
    /\ json = [hasBufferViews |-> TRUE, hasBuffers |-> TRUE,
               bufferViews |-> <<[byteOffset |-> Undef, byteLength |-> 1]>>,
               images |-> <<[bufferView |-> 1, mimeType |-> "image/png"]>>,
               textures |-> <<[source |-> 1]>>,
               materials |-> <<>>]
    /\ NoRun
    /\ AppMounted
    /\ imageSamples = <<128, 200, 255, 128>>
    /\ NoExport

NextQuality ==
    \/ \E q \in 0..MaxQuality : SetCompressionQuality(q)
    \/ \E b \in BOOLEAN : SetIsCompressionEnabled(b)
    \/ NextApp

SpecQuality == InitQuality /\ [][NextQuality]_vars

(***************************************************************************)
(* The exporter-based processGltf (lines 415-592) with its processTexture  *)
(* (lines 315-412).  texture.image of a texture is absent, or has a width  *)
(* and a height, 0 where the source has none.  json, pc, result and logs   *)
(* are used as in the repacking variant.                                   *)
(***************************************************************************)
NoImage == [present |-> FALSE, width |-> 0, height |-> 0]

ImageSources ==
    {NoImage} \cup [present : {TRUE}, width : 0..MaxDim, height : 0..MaxDim]

\* lines 310-313 and the store into the Uint8ClampedArray of the canvas
\* (lines 359-361): 255 * (c/255)^(1/2.2) rounded to the nearest integer,
\* i.e. the k with (2k-1)^11 * 255^5 <= 510^11 * c^5 < (2k+1)^11 * 255^5;
\* entry c+1 here.
correctGammaTable ==
    <<   0,  21,  28,  34,  39,  43,  46,  50,  53,  56,  59,  61,  64,  66,  68,  70,
        72,  74,  76,  78,  80,  82,  84,  85,  87,  89,  90,  92,  93,  95,  96,  98,
        99, 101, 102, 103, 105, 106, 107, 109, 110, 111, 112, 114, 115, 116, 117, 118,
       119, 120, 122, 123, 124, 125, 126, 127, 128, 129, 130, 131, 132, 133, 134, 135,
       136, 137, 138, 139, 140, 141, 142, 143, 144, 144, 145, 146, 147, 148, 149, 150,
       151, 151, 152, 153, 154, 155, 156, 156, 157, 158, 159, 160, 160, 161, 162, 163,
       164, 164, 165, 166, 167, 167, 168, 169, 170, 170, 171, 172, 173, 173, 174, 175,
       175, 176, 177, 178, 178, 179, 180, 180, 181, 182, 182, 183, 184, 184, 185, 186,
       186, 187, 188, 188, 189, 190, 190, 191, 192, 192, 193, 194, 194, 195, 195, 196,
       197, 197, 198, 199, 199, 200, 200, 201, 202, 202, 203, 203, 204, 205, 205, 206,
       206, 207, 207, 208, 209, 209, 210, 210, 211, 212, 212, 213, 213, 214, 214, 215,
       215, 216, 217, 217, 218, 218, 219, 219, 220, 220, 221, 221, 222, 223, 223, 224,
       224, 225, 225, 226, 226, 227, 227, 228, 228, 229, 229, 230, 230, 231, 231, 232,
       232, 233, 233, 234, 234, 235, 235, 236, 236, 237, 237, 238, 238, 239, 239, 240,
       240, 241, 241, 242, 242, 243, 243, 244, 244, 245, 245, 246, 246, 247, 247, 248,
       248, 249, 249, 249, 250, 250, 251, 251, 252, 252, 253, 253, 254, 254, 255, 255 >>

correctGamma(c) == correctGammaTable[c + 1]

\* lines 358-363: R, G and B of every pixel are corrected
CorrectLoop(data) ==
    [p \in 1..Len(data) |-> IF p % 4 = 0 THEN data[p] ELSE correctGamma(data[p])]

\* lines 339-341: a side of the canvas
CanvasSide(side, use) == Max(1, IF use THEN side \div 2 ELSE side)

\* lines 317-411: the ways a call of processTexture on texture t can end.
\* Without an image or a dimension it resolves with the texture itself
\* after a warning; without a 2D context it rejects; when getImageData
\* throws (a tainted canvas) it logs an error and rejects; else it resolves
\* with a new texture.
ProcessOutcomes(t) ==
    IF ~textureImage[t].present THEN {"noImage"}
    ELSE IF textureImage[t].width = 0 \/ textureImage[t].height = 0
         THEN {"noDimensions"}
         ELSE {"noContext", "tainted", "ok"}

\* the promise of processTexture(t) that ended as `outcome`
ProcessTexture(t, outcome) ==
    [outcome |-> outcome,
     width   |-> IF outcome = "ok"
                 THEN CanvasSide(textureImage[t].width, usePngCompression) ELSE 0,
     height  |-> IF outcome = "ok"
                 THEN CanvasSide(textureImage[t].height, usePngCompression) ELSE 0,
     decoded |-> IF outcome = "ok" THEN DecodedSamples(ImageOf(t)) ELSE <<>>,
     data    |-> IF outcome = "ok" THEN CorrectLoop(DecodedSamples(ImageOf(t))) ELSE <<>>]

\* lines 318, 331, 408: what a call of processTexture logs
ProcessLogs(t, outcome) ==
    IF outcome \in {"noImage", "noDimensions"}
    THEN {[type |-> "warning", source |-> outcome, texture |-> t]}
    ELSE IF outcome = "tainted"
         THEN {[type |-> "error", source |-> outcome, texture |-> t]}
         ELSE {}

\* lines 585, 586, 581-583: reject(e), nothing is logged
Reject ==
    /\ pc' = "done"
    /\ result' = "rejected"
    /\ logs' = logs

\* what the exporter-based processGltf never writes
repackVars == <<diffuseTextureSet, task, newImageBuffers, textureSizeChanges,
                newJson, viewMetas, newBinSize, newBinBytes, currentOffset, glb,
                imageSamples, appVars>>

\* line 421
XReadFile ==
    /\ pc = "xReadFile"
    /\ pc' = "xParse"
    /\ UNCHANGED <<json, result, logs, repackVars, exportVars>>

\* lines 424-430: loader.parse calls back with the scene
XParse ==
    /\ pc = "xParse"
    /\ pc' = "xFormats"
    /\ UNCHANGED <<json, result, logs, repackVars, exportVars>>

\* line 586: loader.parse calls back with an error
XParseFail ==
    /\ pc = "xParse"
    /\ Reject
    /\ UNCHANGED <<json, repackVars, exportVars>>

\* lines 439-508: the format of every texture is read off its image
\* definition, which states a mimeType; every texture was loaded
XFormats ==
    /\ pc = "xFormats"
    /\ pc' = "xCollect"
    /\ UNCHANGED <<json, result, logs, repackVars, exportVars>>

\* line 444: parser.getDependency('texture', index) rejects, Promise.all
\* (line 498) rejects, line 585
XFormatsFail ==
    /\ pc = "xFormats"
    /\ NumTextures > 0
    /\ Reject
    /\ UNCHANGED <<json, repackVars, exportVars>>

\* a collection without the return of lines 534-539: an empty set goes on
\* to Promise.all and the exporter
XCollectNoEarlyReturn ==
    /\ pc = "xCollect"
    /\ uniqueTexturesToProcess' = DiffuseTextures
    /\ \E outcome \in [DiffuseTextures -> {"noImage", "noDimensions", "noContext",
                                            "tainted", "ok"}] :
            /\ \A t \in DiffuseTextures : outcome[t] \in ProcessOutcomes(t)
            /\ processingPromises' =
                   [t \in DiffuseTextures |-> ProcessTexture(t, outcome[t])]
            /\ logs' = logs \cup UNION {ProcessLogs(t, outcome[t]) : t \in DiffuseTextures}
            /\ pc' = "xProcess"
            /\ UNCHANGED <<result, blob>>
    /\ UNCHANGED <<json, repackVars, usePngCompression, textureImage, processedTextureMap>>

\* lines 511-548.  Without a diffuse texture the original file is handed
\* back.  Else line 544 calls processTexture on every texture of the set:
\* the executor of its promise runs to its end within the call.
XCollect ==
    /\ pc = "xCollect"
    /\ uniqueTexturesToProcess' = DiffuseTextures
    /\ IF DiffuseTextures = {}
       THEN /\ logs' = logs \cup {[type |-> "warning", source |-> "noDiffuse", texture |-> 0]}
            /\ blob' = [kind |-> "original", maps |-> <<>>]
            /\ result' = "blob"
            /\ pc' = "done"
            /\ UNCHANGED processingPromises
       ELSE \E outcome \in [DiffuseTextures -> {"noImage", "noDimensions", "noContext",
                                                "tainted", "ok"}] :
                /\ \A t \in DiffuseTextures : outcome[t] \in ProcessOutcomes(t)
                /\ processingPromises' =
                       [t \in DiffuseTextures |-> ProcessTexture(t, outcome[t])]
                /\ logs' = logs \cup UNION {ProcessLogs(t, outcome[t]) : t \in DiffuseTextures}
                /\ pc' = "xProcess"
                /\ UNCHANGED <<result, blob>>
    /\ UNCHANGED <<json, repackVars, usePngCompression, textureImage, processedTextureMap>>

Rejected(t) == processingPromises[t].outcome \in {"noContext", "tainted"}

\* an onLoad callback without the try of line 425: the rejection is lost
\* and the promise of processGltf stays pending
XProcessFailLost ==
    /\ pc = "xProcess"
    /\ \E t \in DOMAIN processingPromises : Rejected(t)
    /\ pc' = "unhandled"
    /\ UNCHANGED <<json, result, logs, repackVars, exportVars>>

\* lines 546-550: a call of processTexture rejected, Promise.all rejects,
\* line 585
XProcessFail ==
    /\ pc = "xProcess"
    /\ \E t \in DOMAIN processingPromises : Rejected(t)
    /\ Reject
    /\ UNCHANGED <<json, repackVars, exportVars>>

\* lines 546-575: every call resolved; the converted textures are entered
\* in the map and exporter.parse is called
XProcessed ==
    /\ pc = "xProcess"
    /\ \A t \in DOMAIN processingPromises : ~Rejected(t)
    /\ processedTextureMap' = processingPromises
    /\ pc' = "xExport"
    /\ UNCHANGED <<json, result, logs, repackVars, usePngCompression, textureImage,
                   uniqueTexturesToProcess, processingPromises, blob>>

\* lines 553-572: material.map of material k in the exported scene
ExportedMap(k) ==
    LET t == json.materials[k].baseColorTexture
    IN  IF t = Undef THEN [texture |-> Undef, converted |-> FALSE]
        ELSE [texture |-> t, converted |-> processedTextureMap[t].outcome = "ok"]

\* lines 575-580: the exporter calls back with an ArrayBuffer
XExport ==
    /\ pc = "xExport"
    /\ blob' = [kind |-> "exported",
                maps |-> [k \in DOMAIN json.materials |-> ExportedMap(k)]]
    /\ result' = "blob"
    /\ pc' = "done"
    /\ UNCHANGED <<json, logs, repackVars, usePngCompression, textureImage,
                   uniqueTexturesToProcess, processingPromises, processedTextureMap>>

\* line 583: the exporter calls back with an error
XExportFail ==
    /\ pc = "xExport"
    /\ Reject
    /\ UNCHANGED <<json, repackVars, exportVars>>

NextExport ==
    \/ XReadFile
    \/ XParse
    \/ XParseFail
    \/ XFormats
    \/ XFormatsFail
    \/ XCollect
    \/ XProcessFail
    \/ XProcessed
    \/ XExport
    \/ XExportFail

\* the App at a call of processGltf
AppProcessing ==
    /\ compressionQuality = 90
    /\ isCompressionEnabled = TRUE
    /\ quality = 90
    /\ processingState = "processing"
    /\ downloadUrl = null
    /\ error = null

\* a manifest of nt textures, each with an embedded PNG image of its own
EmbeddedTextures(nt, mats) ==
    [hasBufferViews |-> TRUE, hasBuffers |-> TRUE,
     bufferViews |-> [v \in 1..nt |->
                        [byteOffset |-> IF v = 1 THEN Undef ELSE 1, byteLength |-> 1]],
     images      |-> [i \in 1..nt |-> [bufferView |-> i, mimeType |-> "image/png"]],
     textures    |-> [t \in 1..nt |-> [source |-> t]],
     materials   |-> mats]

InitExport ==
    /\ \E nt \in 0..MaxTextures :
       \E nm \in 0..MaxMaterials :
       \E mats \in [1..nm -> AnyMaterialDefs(nt)],
          imgs \in [1..nt -> ImageSources] :
            /\ json = EmbeddedTextures(nt, mats)
            /\ textureImage = imgs
    /\ usePngCompression \in BOOLEAN
    /\ uniqueTexturesToProcess = {}
    /\ processingPromises = <<>>
    /\ processedTextureMap = <<>>
    /\ blob = NoBlob
    /\ pc = "xReadFile"
    /\ logs = {}
    /\ NoRun
    /\ AppProcessing
    /\ imageSamples = <<128, 200, 255, 128>>

SpecExport == InitExport /\ [][NextExport]_vars

(***************************************************************************)
(* Both variants of processGltf on containers whose materials use any of   *)
(* their texture slots.                                                    *)
(***************************************************************************)
\* every texture has an image of one pixel
OnePixelImages(nt) == [t \in 1..nt |-> [present |-> TRUE, width |-> 1, height |-> 1]]

InitDiffuse ==
    /\ \E nt \in 1..MaxTextures :
       \E nm \in 0..MaxSlotMaterials :
       \E mats \in [1..nm -> AnyMaterialDefs(nt)] :
            /\ json = EmbeddedTextures(nt, mats)
            /\ textureImage = OnePixelImages(nt)
    /\ usePngCompression = FALSE
    /\ uniqueTexturesToProcess = {}
    /\ processingPromises = <<>>
    /\ processedTextureMap = <<>>
    /\ blob = NoBlob
    /\ pc \in {"readFile", "xReadFile"}
    /\ logs = {}
    /\ NoRun
    /\ AppProcessing
    /\ imageSamples = <<128, 200, 255, 128>>

NextBoth == Next \/ NextExport

SpecDiffuse == InitDiffuse /\ [][NextBoth]_vars

(***************************************************************************)
(* Both variants of processGltf on a container with one diffuse texture,   *)
(* whose pixel takes every sample value.                                   *)
(***************************************************************************)
InitGamma ==
    /\ json = EmbeddedTextures(1, <<[baseColorTexture |-> 1, normalTexture |-> Undef]>>)
    /\ textureImage = OnePixelImages(1)
    \* two pixels, every sample value in every channel
    /\ imageSamples \in {<<c, c, 255 - c, c, 255 - c, 0, c, 255 - c>> : c \in 0..255}
    /\ usePngCompression = FALSE
    /\ uniqueTexturesToProcess = {}
    /\ processingPromises = <<>>
    /\ processedTextureMap = <<>>
    /\ blob = NoBlob
    /\ pc \in {"readFile", "xReadFile"}
    /\ logs = {}
    /\ NoRun
    /\ AppProcessing

SpecGamma == InitGamma /\ [][NextBoth]_vars

(***************************************************************************)
(* The exporter-based processGltf on a container with two diffuse          *)
(* textures, whose images have every width and height.                     *)
(***************************************************************************)
InitScale ==
    /\ json = EmbeddedTextures(2, <<[baseColorTexture |-> 1, normalTexture |-> Undef],
                                    [baseColorTexture |-> 2, normalTexture |-> Undef]>>)
    /\ textureImage \in [1..2 -> [present : {TRUE}, width : 1..MaxSide, height : 1..MaxSide]]
    /\ usePngCompression \in BOOLEAN
    /\ uniqueTexturesToProcess = {}
    /\ processingPromises = <<>>
    /\ processedTextureMap = <<>>
    /\ blob = NoBlob
    /\ pc = "xReadFile"
    /\ logs = {}
    /\ NoRun
    /\ AppProcessing
    /\ imageSamples = <<128, 200, 255, 128>>

SpecScale == InitScale /\ [][NextExport]_vars

(***************************************************************************)
(* A run of either variant of processGltf, awaited by handleFileDrop       *)
(* (src/App.tsx, lines 58-68).  The loader, every call of processTexture,  *)
(* the encoder and the exporter return or fail, and the event loop runs    *)
(* every continuation that is ready: each step that can be taken is taken, *)
(* which is weak fairness of the steps of the run and of the two           *)
(* continuations of handleFileDrop.                                        *)
(***************************************************************************)
\* texture.image of a texture: absent, without a width, or one pixel
SomeImages ==
    {NoImage, [present |-> TRUE, width |-> 0, height |-> 1],
     [present |-> TRUE, width |-> 1, height |-> 1]}

InitLive ==
    /\ \E nt \in 0..MaxTextures :
       \E nm \in 0..MaxAppEach :
       \E mats \in [1..nm -> AnyMaterialDefs(nt)],
          imgs \in [1..nt -> SomeImages] :
            /\ json = EmbeddedTextures(nt, mats)
            /\ textureImage = imgs
    /\ usePngCompression = FALSE
    /\ uniqueTexturesToProcess = {}
    /\ processingPromises = <<>>
    /\ processedTextureMap = <<>>
    /\ blob = NoBlob
    /\ pc \in {"readFile", "xReadFile"}
    /\ logs = {}
    /\ NoRun
    /\ AppProcessing
    /\ imageSamples = <<128, 200, 255, 128>>

NextLive ==
    \/ Next
    \/ NextExport
    \/ RunResolved
    \/ RunRejected

\* the condition under which Layout can take a step
LayoutEnabled == pc = "tasks" /\ AllSettled

\* Every pending step of a run is eventually taken: the reader, the loader,
\* the texture tasks and the exporter call back (or fail), and the code
\* between two awaits runs to the next await.  The conjunct of Layout is
\* WF_vars(Layout) with ENABLED <<Layout>>_vars written as LayoutEnabled.
SpecLive ==
    /\ InitLive
    /\ [][NextLive]_vars
    /\ WF_vars(ReadFile)
    /\ WF_vars(Parse \/ ParseFail)
    /\ WF_vars(StartTasks)
    /\ WF_vars(\E t \in 1..MaxTextures : TaskProcess(t) \/ TaskDecodeFail(t))
    /\ WF_vars(\E t \in 1..MaxTextures : TaskSettle(t))
    /\ WF_vars(PromiseAllReject)
    /\ ([]<>~LayoutEnabled \/ []<><<Layout>>_vars)
    /\ WF_vars(CopyViews)
    /\ WF_vars(CheckMismatch)
    /\ WF_vars(Assemble)
    /\ WF_vars(NextExport)
    /\ WF_vars(RunResolved)
    /\ WF_vars(RunRejected)

(***************************************************************************)
(* Properties.                                                             *)
(***************************************************************************)
\* pass 1 has written the output manifest
LaidOut == pc \in {"pass2", "check", "assemble"} \/ result = "blob"

Align4(n) == ((n + 3) \div 4) * 4

\* the bytes of view v in the input payload
OriginalBytes(v) ==
    [k \in 1..json.bufferViews[v].byteLength |->
        oldBin[OrZero(json.bufferViews[v].byteOffset) + k]]

\* the bytes of view v in the output payload
EmittedBytes(v) ==
    [k \in 1..newJson.bufferViews[v].byteLength |->
        newBinBytes[newJson.bufferViews[v].byteOffset + k]]

\* C1: every buffer view written to the output manifest by the layout
\* pass has a byteOffset that is a multiple of 4.
C1_ViewOffsetsAligned ==
    LaidOut => \A v \in DOMAIN newJson.bufferViews :
                   newJson.bufferViews[v].byteOffset % 4 = 0

\* two views, the later one moved up to offset 4 behind a re-encoded image
C1_Witness ==
    /\ LaidOut
    /\ \E v \in DOMAIN newJson.bufferViews : newJson.bufferViews[v].byteOffset = 4
    /\ \E i \in DOMAIN newImageBuffers : newImageBuffers[i].set

\* C2: the total length of the header is 12 + 8 + padded JSON length
\* + 8 + padded BIN length, and it is the number of bytes written: the
\* write offset after the BIN padding and the size of the buffer.
C2_TotalLength ==
    result = "blob" =>
        /\ glb.length = 12 + 8 + Align4(glb.jsonLength) + 8 + Align4(Len(glb.binData))
        /\ glb.offset = glb.length
        /\ glb.byteLength = glb.length

\* a container whose manifest and payload both needed padding
C2_Witness ==
    /\ result = "blob"
    /\ glb.jsonLength % 4 # 0
    /\ Len(glb.binData) % 4 # 0
    /\ Len(glb.binData) > 4

\* C3: both chunk lengths are multiples of 4; the manifest is followed by
\* fewer than 4 bytes 0x20, the payload by fewer than 4 bytes 0x00.
C3_ChunkPadding ==
    result = "blob" =>
        /\ glb.jsonChunkLength % 4 = 0
        /\ glb.binChunkLength % 4 = 0
        /\ glb.jsonChunkLength = glb.jsonLength + Len(glb.jsonPad)
        /\ glb.binChunkLength = Len(glb.binData) + Len(glb.binPad)
        /\ Len(glb.jsonPad) < 4
        /\ Len(glb.binPad) < 4
        /\ \A k \in DOMAIN glb.jsonPad : glb.jsonPad[k] = 32
        /\ \A k \in DOMAIN glb.binPad : glb.binPad[k] = 0

\* a container with three bytes of padding behind the manifest and some
\* behind the payload
C3_Witness ==
    /\ result = "blob"
    /\ Len(glb.jsonPad) = 3
    /\ Len(glb.binPad) > 0

\* C6: pass 1 and the assembler run only when every per-texture callback
\* has settled: it returned (re-encoded, fell back or skipped).
C6_BarrierBeforeLayout ==
    LaidOut => \A t \in DOMAIN task :
                   /\ task[t].pc = "done"
                   /\ task[t].outcome \in {"ok", "threw", "skipped"}

\* laid out after two callbacks, one re-encoded and one fallen back
C6_Witness ==
    /\ pc = "pass2"
    /\ \E a, b \in DOMAIN task : task[a].outcome = "ok" /\ task[b].outcome = "threw"

\* the textures some material uses as its base-colour map
InDiffuseSet(t) ==
    \E k \in DOMAIN json.materials : json.materials[k].baseColorTexture = t

\* C8: the samples handed to the PNG encoder for a texture outside the
\* diffuse set are the decoded samples.
C8_NonDiffuseUntouched ==
    \A t \in DOMAIN task :
        (task[t].pc = "awaitProc" /\ task[t].outcome = "ok" /\ ~InDiffuseSet(t))
            => task[t].encoderInput = task[t].decoded

\* two textures encoded in the same run: one outside the diffuse set, its
\* samples untouched, one inside, its samples gamma-corrected
C8_Witness ==
    \E a, b \in DOMAIN task :
        /\ task[a].pc = "awaitProc" /\ task[a].outcome = "ok" /\ ~InDiffuseSet(a)
        /\ task[a].encoderInput = DecodedSamples(ImageOf(a))
        /\ task[b].pc = "awaitProc" /\ task[b].outcome = "ok" /\ InDiffuseSet(b)
        /\ task[b].encoderInput # task[b].decoded

\* C9: the output manifest has the textures, the texture sources, the
\* material bindings and the image-to-view references of the input
\* manifest, and as many images, views and buffers.
C9_ManifestPreserved ==
    result = "blob" =>
        /\ newJson.textures = json.textures
        /\ newJson.materials = json.materials
        /\ Len(newJson.images) = Len(json.images)
        /\ \A i \in DOMAIN json.images :
              newJson.images[i].bufferView = json.images[i].bufferView
        /\ Len(newJson.bufferViews) = Len(json.bufferViews)
        /\ Len(newJson.buffers) = 1

\* a container with a material, whose JPEG image was re-encoded and one of
\* whose views moved
C9_Witness ==
    /\ result = "blob"
    /\ json.materials # <<>>
    /\ \E i \in DOMAIN json.images :
          json.images[i].mimeType = "image/jpeg" /\ newJson.images[i].mimeType = "image/png"
    /\ \E v \in DOMAIN json.bufferViews :
          newJson.bufferViews[v].byteOffset # OrZero(json.bufferViews[v].byteOffset)

\* the view that holds the image of texture t, or Undef
ViewOf(t) == json.images[ImageOf(t)].bufferView

\* C4: when decoding, transforming or encoding one texture fails, the run
\* still returns a container, the view of that texture carries its
\* original bytes and its report entry says not modified.  (Stated for the
\* textures whose image is embedded in a buffer view.)
C4_TextureFailureNotFatal ==
    \A t \in DOMAIN task :
        ( /\ pc = "done"
          /\ task[t].outcome \in {"threw", "decodeFailed"}
          /\ ViewOf(t) # Undef )
            => /\ result = "blob"
               /\ EmittedBytes(ViewOf(t)) = OriginalBytes(ViewOf(t))
               /\ textureSizeChanges[ImageOf(t)].set
               /\ ~textureSizeChanges[ImageOf(t)].modified

\* no view that holds a PNG image is longer in the output than in the input
C5_NoInflation ==
    result = "blob" =>
        \A i \in DOMAIN json.images :
            (json.images[i].mimeType = "image/png" /\ json.images[i].bufferView # Undef)
                => newJson.bufferViews[json.images[i].bufferView].byteLength
                       <= json.bufferViews[json.images[i].bufferView].byteLength

\* a callback that settles with a PNG longer than the PNG original leaves
\* the original bytes in its slot and reports the image as not modified
C5_KeptOnRegression ==
    \A t \in DOMAIN task :
        ( /\ task[t].pc = "awaitProc" /\ task[t].outcome = "ok"
          /\ task'[t].pc = "done"
          /\ json.images[ImageOf(t)].mimeType = "image/png"
          /\ Len(task[t].pngBuffer) > json.bufferViews[ViewOf(t)].byteLength )
            => /\ newImageBuffers'[ImageOf(t)] =
                     [set |-> TRUE, data |-> OriginalBytes(ViewOf(t))]
               /\ textureSizeChanges'[ImageOf(t)].set
               /\ ~textureSizeChanges'[ImageOf(t)].modified
               /\ textureSizeChanges'[ImageOf(t)].newSize =
                     json.bufferViews[ViewOf(t)].byteLength

C10_NoTexturesEmptyPayload ==
    ( /\ NumTextures = 0
      /\ pc = "done"
      /\ [type |-> "error", source |-> "parse", texture |-> 0] \notin logs )
        => /\ result = "blob"
           /\ Len(glb.binData) = 0
           /\ glb.binChunkLength = 0
           /\ glb.binChunkType = GLB_CHUNK_TYPE_BIN


(***************************************************************************)
(* The layout of the views.                                                *)
(***************************************************************************)
OriginalOffset(v) == OrZero(json.bufferViews[v].byteOffset)

\* view a comes before view b in the order of the original offsets, views
\* of the same offset taken in the order of the manifest
Precedes(a, b) ==
    \/ OriginalOffset(a) < OriginalOffset(b)
    \/ OriginalOffset(a) = OriginalOffset(b) /\ a < b

\* the view laid out just before view b, or Undef for the first view
Predecessor(b) ==
    LET before == {a \in DOMAIN json.bufferViews : Precedes(a, b)}
    IN  IF before = {} THEN Undef
        ELSE CHOOSE a \in before : \A o \in before : o = a \/ Precedes(o, a)

\* the number of bytes the layout has for view v: the new bytes of its
\* image where a callback stored some, else the bytes it had
SourceLength(v) ==
    LET i == ViewIndexToImageIndex(v)
    IN  IF i # Undef /\ newImageBuffers[i].set
        THEN Len(newImageBuffers[i].data)
        ELSE json.bufferViews[v].byteLength

NewOffset(v) == newJson.bufferViews[v].byteOffset
NewLength(v) == newJson.bufferViews[v].byteLength

\* C11: in the order of the original offsets the first view is at offset
\* 0, every later view at the end of the view before it rounded up to a
\* multiple of 4, and the byteLength of a view is the length of its
\* (possibly replaced) source bytes.
C11_SequentialLayout ==
    LaidOut => \A v \in DOMAIN json.bufferViews :
        /\ NewLength(v) = SourceLength(v)
        /\ NewOffset(v) = IF Predecessor(v) = Undef THEN 0
                          ELSE Align4(NewOffset(Predecessor(v)) + NewLength(Predecessor(v)))

\* two views, the first holding an image whose re-encoding has another
\* length than the original, the second moved up to offset 4
C11_Witness ==
    /\ LaidOut
    /\ \E a, b \in DOMAIN json.bufferViews :
          /\ Predecessor(a) = Undef /\ Predecessor(b) = a
          /\ NewOffset(b) = 4
          /\ ViewIndexToImageIndex(a) # Undef
          /\ NewLength(a) # json.bufferViews[a].byteLength

\* C17: pass 2 ends with its cursor on the size pass 1 computed, the
\* payload buffer has that size, and no write of pass 2 fell outside it.
C17_CursorMeetsSize ==
    /\ (pc \in {"check", "assemble"} \/ result = "blob")
          => /\ currentOffset = newBinSize
             /\ Len(newBinBytes) = newBinSize
             /\ \A v \in DOMAIN json.bufferViews :
                   NewOffset(v) + Len(EmittedBytes(v)) <= Len(newBinBytes)
    /\ [type |-> "error", source |-> "copy", texture |-> 0] \notin logs
    /\ [type |-> "error", source |-> "mismatch", texture |-> 0] \notin logs

\* pass 2 done for two views with padding between them, after one callback
\* re-encoded and one fell back
C17_Witness ==
    /\ pc = "check"
    /\ currentOffset > 4
    /\ currentOffset % 4 # 0
    /\ \E a, b \in DOMAIN task : task[a].outcome = "ok" /\ task[b].outcome = "threw"

\* C18: in the output manifest every view ends within buffers[0], no two
\* views overlap, and the new offsets do not decrease along the original
\* offsets.
C18_ViewsWithinBuffer ==
    LaidOut =>
        /\ \A v \in DOMAIN newJson.bufferViews :
              NewOffset(v) + NewLength(v) <= newJson.buffers[1].byteLength
        /\ \A a, b \in DOMAIN newJson.bufferViews :
              a # b => \/ NewOffset(a) + NewLength(a) <= NewOffset(b)
                       \/ NewOffset(b) + NewLength(b) <= NewOffset(a)
        /\ \A a, b \in DOMAIN newJson.bufferViews :
              OriginalOffset(a) < OriginalOffset(b) => NewOffset(a) <= NewOffset(b)

\* a container emitted with two views that the manifest lists against the
\* order of their offsets, the last one ending at the end of the buffer
C18_Witness ==
    /\ result = "blob"
    /\ Len(newJson.bufferViews) = 2
    /\ OriginalOffset(1) > OriginalOffset(2)
    /\ NewOffset(1) + NewLength(1) = newJson.buffers[1].byteLength

\* C19: the views are laid out by ascending original byteOffset, an absent
\* byteOffset counting as 0, and views of the same original offset in the
\* order of the manifest.
C19_LayoutOrder ==
    LaidOut =>
        /\ \A k, l \in DOMAIN viewMetas :
              k < l => Precedes(viewMetas[k].index, viewMetas[l].index)
        /\ \A a, b \in DOMAIN json.bufferViews :
              Precedes(a, b) => NewOffset(a) + NewLength(a) <= NewOffset(b)

\* two views without a byteOffset laid out one after the other
C19_Witness ==
    /\ LaidOut
    /\ Len(json.bufferViews) = 2
    /\ json.bufferViews[1].byteOffset = Undef
    /\ json.bufferViews[2].byteOffset = Undef
    /\ NewOffset(1) = 0
    /\ NewOffset(2) = 4


\* C13: a run that fails fatally exposes no partial output: processGltf
\* rejects without a container, and the App ends in 'error' with
\* downloadUrl null.
C13_NoPartialOutput ==
    /\ result = "rejected" => glb = NoGlb
    /\ (result = "rejected" /\ pc = "returned") => processingState = "error"
    /\ processingState = "error" => (result = "rejected" /\ downloadUrl = null)

\* the App in 'error' after a container that could not be parsed
C13_Witness ==
    /\ processingState = "error"
    /\ downloadUrl = null
    /\ [type |-> "error", source |-> "parse", texture |-> 0] \in logs

\* the palette size of a run of quality 100 is not below that of any
\* quality, and none is above it
C14_CnumMonotonic ==
    \A t \in DOMAIN task :
        (task[t].pc = "awaitProc" /\ task[t].outcome = "ok")
            => \A q \in 0..MaxQuality :
                  /\ q <= quality => Cnum(q) <= task[t].cnum
                  /\ q >= quality => task[t].cnum <= Cnum(q)

\* C14 (amended): over the qualities 0..99 the palette size handed to the
\* encoder does not decrease as the quality rises, from 2 to 253; quality
\* 100 gives 0, the encoder's value for no quantization.
C14_CnumMonotonicBelow100 ==
    \A t \in DOMAIN task :
        (task[t].pc = "awaitProc" /\ task[t].outcome = "ok")
            => IF quality = 100 THEN task[t].cnum = 0
               ELSE /\ task[t].cnum \in 2..253
                    /\ \A q \in 0..99 :
                          /\ q <= quality => Cnum(q) <= task[t].cnum
                          /\ q >= quality => task[t].cnum <= Cnum(q)

\* a texture encoded at quality 25, where 2 + 254 * 25 / 100 = 65.5 is
\* rounded up to 66
C14_Witness ==
    \E t \in DOMAIN task :
        /\ task[t].pc = "awaitProc" /\ task[t].outcome = "ok"
        /\ quality = 25
        /\ task[t].cnum = 66


\* a log event of severity 'error' about texture t
ErrorLogged(t) == \E e \in logs : e.type = "error" /\ e.texture = t

\* C12: every failure of a run, fatal or recovered for one texture, comes
\* with a log event of severity 'error', and a fatal failure makes
\* processGltf reject.  (The rejections for which processGltf itself logs
\* nothing are logged by its caller, App.tsx line 65.)
C12_FailuresLogged ==
    /\ \A t \in DOMAIN task :
          (task[t].pc = "done" /\ task[t].outcome = "threw") => ErrorLogged(t)
    /\ \A t \in DOMAIN processingPromises :
          processingPromises[t].outcome \in {"noImage", "noDimensions", "tainted"}
              => ErrorLogged(t)
    /\ \A e \in logs :
          (e.type = "error" /\ e.texture = 0
             /\ e.source \in {"parse", "texture", "layout", "copy"})
              => result = "rejected"
    /\ (pc = "done" /\ \E t \in DOMAIN processingPromises : Rejected(t))
          => result = "rejected"

\* the gamma table of the variant that is running, entry c+1 for sample c
TableOf(variant) == IF variant = "repack" THEN srgbToLinear ELSE correctGammaTable

\* `out` is what the table gives for sample `in`, between its neighbours
\* in the table and fixed at both ends
InTableOrder(variant, in, out) ==
    /\ out = TableOf(variant)[in + 1]
    /\ in = 0 => out = 0
    /\ in = 255 => out = 255
    /\ in > 0 => TableOf(variant)[in] <= out
    /\ in < 255 => out <= TableOf(variant)[in + 2]

\* C15: the gamma table is non-decreasing in the linearize direction
\* (repacking variant, exponent 2.2) and in the delinearize direction
\* (exporter variant, exponent 1/2.2), with 0 for 0 and 255 for 255: every
\* corrected sample lies between the table's values for the next lower and
\* the next higher sample.
C15_GammaTableMonotonic ==
    /\ \A t \in DOMAIN task :
          (task[t].pc = "awaitProc" /\ task[t].outcome = "ok" /\ InDiffuseSet(t))
              => \A p \in 1..3 :
                    InTableOrder("repack", task[t].decoded[p], task[t].encoderInput[p])
    /\ \A t \in DOMAIN processingPromises :
          processingPromises[t].outcome = "ok"
              => \A p \in 1..3 :
                    InTableOrder("export", processingPromises[t].decoded[p],
                                 processingPromises[t].data[p])

\* the sample 255 corrected to 255 by the repacking variant
C15_Witness ==
    \E t \in DOMAIN task :
        /\ task[t].pc = "awaitProc" /\ task[t].outcome = "ok" /\ InDiffuseSet(t)
        /\ task[t].decoded[1] = 255
        /\ task[t].encoderInput[1] = 255
        /\ task[t].encoderInput[3] = 0

\* C16: no entry of newImageBuffers and of textureSizeChanges is written
\* by two callbacks: a callback that settles finds the entry of its image
\* unwritten.
C16_OneWriterPerSlot ==
    [][\A t \in DOMAIN task :
          (task[t].pc = "awaitProc" /\ task'[t].pc = "done")
              => /\ ~textureSizeChanges[ImageOf(t)].set
                 /\ ~newImageBuffers[ImageOf(t)].set]_vars

\* the textures some material has in its base-colour slot
BaseColorTextures ==
    {t \in DOMAIN json.textures :
        \E k \in DOMAIN json.materials : json.materials[k].baseColorTexture = t}

\* C20: the diffuse set holds exactly the textures some material has in
\* its base-colour slot, whatever the other slots hold, and a texture is
\* processed once however many materials use it.
C20_DiffuseSetExact ==
    /\ pc \in {"loadBuffer", "tasks", "pass2", "check", "assemble"}
          => diffuseTextureSet = BaseColorTextures
    /\ pc = "tasks" => DOMAIN task = DOMAIN json.textures
    /\ \A t \in DOMAIN task :
          (task[t].pc = "awaitProc" /\ task[t].outcome = "ok")
              => (task[t].encoderInput # task[t].decoded <=> t \in BaseColorTextures)
    /\ pc \in {"xProcess", "xExport"}
          => /\ uniqueTexturesToProcess = BaseColorTextures
             /\ DOMAIN processingPromises = BaseColorTextures

\* two materials with the same base-colour texture, one of them with the
\* other texture as its normal map: the first is in the set, the second is
\* not
C20_Witness ==
    /\ pc = "tasks"
    /\ Len(json.materials) = 2
    /\ json.materials[1].baseColorTexture = 1
    /\ json.materials[2].baseColorTexture = 1
    /\ json.materials[1].normalTexture = 2
    /\ diffuseTextureSet = {1}
    /\ task[1].pc = "awaitProc" /\ task[1].outcome = "ok"
    /\ task[2].pc = "awaitProc" /\ task[2].outcome = "ok"
    /\ task[2].encoderInput = task[2].decoded

\* the buffer view that holds image i
ViewOfImage(i) == json.images[i].bufferView

\* C21: for every texture of the size report, the final size reported is
\* the byteLength of the buffer view that holds its image in the emitted
\* container, and an entry marked unmodified has a view whose bytes are the
\* original bytes.
C21_ReportMatchesOutput ==
    (pc \in {"check", "assemble"} \/ result = "blob")
        => \A i \in DOMAIN textureSizeChanges :
              textureSizeChanges[i].set
                  => /\ textureSizeChanges[i].newSize
                            = newJson.bufferViews[ViewOfImage(i)].byteLength
                     /\ ~textureSizeChanges[i].modified
                            => EmittedBytes(ViewOfImage(i)) = OriginalBytes(ViewOfImage(i))

\* C22: gamma correction leaves every alpha sample (every fourth sample of
\* the RGBA buffer) as it was, in the repacking and in the exporter
\* variant.
C22_AlphaUntouched ==
    /\ \A t \in DOMAIN task :
          (task[t].pc = "awaitProc" /\ task[t].outcome = "ok" /\ InDiffuseSet(t))
              => /\ Len(task[t].encoderInput) = Len(task[t].decoded)
                 /\ \A p \in DOMAIN task[t].decoded :
                       p % 4 = 0 => task[t].encoderInput[p] = task[t].decoded[p]
    /\ \A t \in DOMAIN processingPromises :
          processingPromises[t].outcome = "ok"
              => /\ Len(processingPromises[t].data) = Len(processingPromises[t].decoded)
                 /\ \A p \in DOMAIN processingPromises[t].decoded :
                       p % 4 = 0 => processingPromises[t].data[p]
                                        = processingPromises[t].decoded[p]

\* a diffuse texture of two pixels with alpha 128 and 127, its colour
\* samples corrected by the repacking variant
C22_Witness ==
    \E t \in DOMAIN task :
        /\ task[t].pc = "awaitProc" /\ task[t].outcome = "ok" /\ InDiffuseSet(t)
        /\ task[t].decoded = <<128, 128, 127, 128, 127, 0, 128, 127>>
        /\ task[t].encoderInput[1] = 55
        /\ task[t].encoderInput[4] = 128
        /\ task[t].encoderInput[8] = 127

\* a canvas of cw x ch is what the downscaling rule with target maximum
\* dimension `target` makes of an image of w x h
DownscaledTo(target, w, h, cw, ch) ==
    LET m == Max(w, h)
    IN  IF m > target
        THEN /\ cw = Max(1, (w * target) \div m)
             /\ ch = Max(1, (h * target) \div m)
        ELSE cw = w /\ ch = h

\* C23: with downscaling enabled there is a target maximum dimension such
\* that a texture is resized only if max(width, height) exceeds it, by the
\* factor target / max(width, height) on both sides, each side floored and
\* at least 1.
C23_DownscaleRule ==
    usePngCompression
        => \E target \in 1..MaxSide :
              \A t \in DOMAIN processingPromises :
                  processingPromises[t].outcome = "ok"
                      => DownscaledTo(target, textureImage[t].width, textureImage[t].height,
                                      processingPromises[t].width,
                                      processingPromises[t].height)

\* the views no image of the manifest is stored in
NonImageViews == {v \in DOMAIN json.bufferViews : ViewIndexToImageIndex(v) = Undef}

\* C24: a buffer view that is not the source of an image passes through:
\* its new byteLength is its original byteLength and the bytes at its new
\* range of the output payload are the bytes at its original range of the
\* input payload.
C24_NonImageViewsPassThrough ==
    (pc \in {"check", "assemble"} \/ result = "blob")
        => \A v \in NonImageViews :
              /\ newJson.bufferViews[v].byteLength = json.bufferViews[v].byteLength
              /\ EmittedBytes(v) = OriginalBytes(v)

\* a passed-through view of two bytes that moved: it lies behind an image
\* view whose bytes were replaced by a shorter encoding
C24_Witness ==
    /\ result = "blob"
    /\ \E v \in NonImageViews, w \in DOMAIN json.bufferViews :
          /\ ViewIndexToImageIndex(w) # Undef
          /\ newImageBuffers[ViewIndexToImageIndex(w)].set
          /\ newJson.bufferViews[w].byteLength < json.bufferViews[w].byteLength
          /\ json.bufferViews[v].byteOffset = 1
          /\ json.bufferViews[v].byteLength = 2
          /\ newJson.bufferViews[v].byteOffset = 4
          /\ EmittedBytes(v) = <<2, 3>>

\* two callbacks that wait for processTexture
Pending(t1, t2) ==
    /\ t1 \in DOMAIN task /\ t2 \in DOMAIN task /\ t1 # t2
    /\ task[t1].pc = "awaitProc" /\ task[t2].pc = "awaitProc"

\* the input is fixed: processTexture called twice on one image with the
\* same isDiffuse ends the same way both times
SameCallSameEnd(t1, t2) ==
    (ImageOf(t1) = ImageOf(t2) /\ IsDiffuse(t1) = IsDiffuse(t2))
        => /\ task[t1].outcome = task[t2].outcome
           /\ task[t1].pngBuffer = task[t2].pngBuffer

\* C25: the bytes processGltf returns and the size report do not depend on
\* the order in which the callbacks complete: whichever of two waiting
\* callbacks continues first, the staged image bytes and the report
\* entries, from which layout, payload and report are computed, end up the
\* same.
C25_OrderIndependent ==
    \A t1, t2 \in 1..MaxTextures :
        (Pending(t1, t2) /\ SameCallSameEnd(t1, t2))
            => /\ SettledBuffers(SettledBuffers(newImageBuffers, t1), t2)
                    = SettledBuffers(SettledBuffers(newImageBuffers, t2), t1)
               /\ SettledChanges(SettledChanges(textureSizeChanges, t1), t2)
                    = SettledChanges(SettledChanges(textureSizeChanges, t2), t1)

\* view v of the output holds bytes the PNG encoder produced
HoldsEncoderBytes(v) ==
    \A k \in DOMAIN EmittedBytes(v) : EmittedBytes(v)[k] = PngByte

\* pass 1 rewrote the mimeType of image i (line 163)
Rewritten(i) ==
    /\ ViewOfImage(i) # Undef
    /\ ViewIndexToImageIndex(ViewOfImage(i)) = i
    /\ newImageBuffers[i].set

\* C26: in the emitted manifest an image whose buffer view carries bytes of
\* the PNG encoder declares mimeType 'image/png', and an image whose
\* mimeType was rewritten to 'image/png' has a view of PNG bytes (encoder
\* output, or original bytes that were PNG already), also when images
\* share a buffer view.
C26_MimeTypeMatchesBytes ==
    (pc \in {"check", "assemble"} \/ result = "blob")
        => \A i \in DOMAIN json.images :
              /\ (ViewOfImage(i) # Undef /\ HoldsEncoderBytes(ViewOfImage(i)))
                    => newJson.images[i].mimeType = "image/png"
              /\ Rewritten(i)
                    => /\ newJson.images[i].mimeType = "image/png"
                       /\ \/ HoldsEncoderBytes(ViewOfImage(i))
                          \/ /\ json.images[i].mimeType = "image/png"
                             /\ EmittedBytes(ViewOfImage(i)) = OriginalBytes(ViewOfImage(i))

\* the moves of the processing state
StateMoves ==
    {<<"idle", "processing">>, <<"processing", "success">>,
     <<"processing", "error">>, <<"success", "idle">>, <<"error", "idle">>}

\* a step that starts a conversion run
RunStarts == pc' \in {"readFile", "levelRun"} /\ pc' # pc

\* a step that reports a dropped file that is not a .glb file
InvalidFileReported ==
    \E e \in logs' \ logs : e.source = "fileType"

\* C27: the processing state moves only idle -> processing, processing ->
\* success, processing -> error and success/error -> idle; a run starts
\* only from idle, where no run is in flight, so at most one run is in
\* flight; a dropped file that is not a .glb file leaves the state idle.
C27_StateMachine ==
    [][/\ processingState' # processingState
            => <<processingState, processingState'>> \in StateMoves
       /\ RunStarts
            => /\ processingState = "idle" /\ pc = "idle"
               /\ processingState' = "processing"
       /\ processingState' = "idle" => pc' = "idle"
       /\ InvalidFileReported
            => processingState = "idle" /\ processingState' = "idle"]_vars

\* a file that is not a .glb file was dropped and reported, and the App
\* is idle with no run in flight
C27_Witness ==
    /\ processingState = "idle"
    /\ pc = "idle"
    /\ [type |-> "error", source |-> "fileType", texture |-> 0] \in logs

\* C28: in state 'success' downloadUrl is not null, in state 'error' the
\* error message is not null, and in state 'idle', which handleReset
\* leads to, both are null.
C28_UrlAndErrorSet ==
    /\ processingState = "success" => downloadUrl # null
    /\ processingState = "error" => error # null
    /\ processingState = "idle" => (downloadUrl = null /\ error = null)

\* the download link of a finished run of src/App.tsx is shown
C28_Witness ==
    /\ processingState = "success"
    /\ downloadUrl = "blob:"
    /\ error = null
    /\ result = "blob"
    /\ pc = "returned"

\* C29: every run settles: processGltf resolves with a Blob or rejects,
\* and the App leaves 'processing' for 'success' or 'error'.
C29_RunSettles ==
    /\ (pc \in {"readFile", "xReadFile"}) ~> (result \in {"blob", "rejected"})
    /\ (processingState = "processing") ~> (processingState \in {"success", "error"})

\* the App shows the error of a run of the exporter variant in which a
\* call of processTexture rejected
C29_Witness ==
    /\ processingState = "error"
    /\ result = "rejected"
    /\ pc = "returned"
    /\ \E t \in DOMAIN processingPromises : Rejected(t)

\* the Blob of line 537: the bytes of the input file
OriginalBlob == [kind |-> "original", maps |-> <<>>]

\* no call of processTexture was made and the exporter was not called
NothingProcessed ==
    /\ processingPromises = <<>>
    /\ processedTextureMap = <<>>
    /\ pc \notin {"xProcess", "xExport"}
    /\ blob \in {NoBlob, OriginalBlob}

\* the collection step of a run without a diffuse texture resolves with
\* the input file
ResolvesWithOriginal ==
    (pc = "xCollect" /\ BaseColorTextures = {})
        => /\ result' = "blob"
           /\ blob' = OriginalBlob
           /\ pc' = "done"

\* C30: in the exporter variant, when no material has a base-colour
\* texture, processGltf resolves with a Blob of the original file bytes,
\* no texture is processed and nothing is exported.
C30_EmptySetReturnsOriginal ==
    /\ [](BaseColorTextures = {} => NothingProcessed)
    /\ [](BaseColorTextures = {} /\ result = "blob" => blob = OriginalBlob)
    /\ [][ResolvesWithOriginal]_vars

\* a file with a texture that a material uses as its normal map only: the
\* run resolved with the input file and warned
C30_Witness ==
    /\ BaseColorTextures = {}
    /\ \E k \in DOMAIN json.materials : json.materials[k].normalTexture # Undef
    /\ result = "blob"
    /\ blob = OriginalBlob
    /\ processingPromises = <<>>
    /\ [type |-> "warning", source |-> "noDiffuse", texture |-> 0] \in logs

====
